---- MODULE Spec2Model ----
(***************************************************************************)
(* A model of gestionbot/main.py: a Discord bot keeping two money balances *)
(* and a merchandise map in one document (DATA), persisted to data.json,   *)
(* mirrored into two status messages and logged to a history channel.      *)
(*                                                                         *)
(* Every command handler is an asyncio task.  A task runs without          *)
(* interruption between two suspensions; it suspends at a network call     *)
(* (send, fetch, edit) and at the acquisition of a lock that is held.  An  *)
(* action of the model is one such uninterrupted run of one task.          *)
(***************************************************************************)
EXTENDS Integers, Sequences, FiniteSets, TLC

(***************************************************************************)
(* Bounds of the model.                                                    *)
(***************************************************************************)
\* number of command invocations in one behaviour
MaxCmds == 2
\* number of times on_ready fires in one behaviour
MaxReady == 2
\* the latest time the clock reaches
MaxClock == 2

(***************************************************************************)
(* CONFIG                                                                  *)
(***************************************************************************)
\* Python's None: a missing channel, an unset parameter
None == "None"
\* a status message id that is null (None) in the document
NoId == 0

ALLOWED_USER_IDS == {"549140350887788544", "428666981604917249", "621802427221278740"}
ALLOWED_USER_NAMES == {"Alpha-1#0001", "Alpha-4#0004", "Alpha-5#0005"}

CHANNEL_CMD == "cmds"
CHANNEL_BANQUE == "banque"
CHANNEL_MARCH == "marchandises"
CHANNEL_HISTORY == "historique"

EmptyMap == [k \in {} |-> 0]

DEFAULT_DATA ==
    [propre |-> 0,
     sale |-> 0,
     marchandises |-> EmptyMap,
     status_message_ids |-> [banque |-> NoId, marchandises |-> NoId]]

(***************************************************************************)
(* Inputs.                                                                 *)
(***************************************************************************)
\* callers: one on the id allow-list, one only on the name list, one on neither
Users ==
    {[id |-> "549140350887788544", name |-> "Tartuffl", discriminator |-> "0"],
     [id |-> "100000000000000001", name |-> "Alpha-1", discriminator |-> "0001"],
     [id |-> "100000000000000002", name |-> "intrus", discriminator |-> "6666"]}

\* the channel of an interaction: its name, or None for no channel
InteractionChannels == {CHANNEL_CMD, CHANNEL_HISTORY, None}

\* who invokes, and where: every user in the command channel, and a user on
\* the id allow-list in another channel and in none
Callers ==
    [user : Users, channel : {CHANNEL_CMD}]
    \cup [user : {u \in Users : u.id \in ALLOWED_USER_IDS},
          channel : InteractionChannels]

Names == {"crates", "boxes"}
Amounts == {-1, 2}

MoneyCmds == {"propre_in", "propre_out", "sale_in", "sale_out"}
ItemQtyCmds == {"marchandise_in", "marchandise_out"}
ItemCmds == {"new_marchandise", "delete_marchandise", "clean_marchandise"}
PlainCmds == {"clean_propre", "clean_sale", "clean_marchandise_all"}
Commands == MoneyCmds \cup ItemQtyCmds \cup ItemCmds \cup PlainCmds

\* a command with its parameters (None / 0 where the command takes none)
Calls ==
    [cmd : MoneyCmds, nom : {None}, montant : Amounts]
    \cup [cmd : ItemQtyCmds, nom : Names, montant : Amounts]
    \cup [cmd : ItemCmds, nom : Names, montant : {0}]
    \cup [cmd : PlainCmds, nom : {None}, montant : {0}]

\* the text channels of a guild set up as the instructions ask
AllChannels == {CHANNEL_CMD, CHANNEL_BANQUE, CHANNEL_MARCH, CHANNEL_HISTORY}

\* the guild the interactions come from
HomeGuild == 1

\* a text channel of a guild, and the channel that was not found
Channel(guild, name) == [guild |-> guild, name |-> name]
NoChannel == [guild |-> 0, name |-> None]

\* the content of a status message as ensure_status_messages sends it
Loading == [kind |-> "loading"]

\* what data.json holds when the process starts, and the status messages
\* that exist then: none on a first run; after a run that left balances 1 and
\* 2 and two items, the two messages as that run last rendered them
Starts ==
    {[doc |-> DEFAULT_DATA, msgs |-> EmptyMap],
     [doc |-> [propre |-> 1, sale |-> 2,
               marchandises |-> [k \in Names |-> IF k = "crates" THEN 2 ELSE 1],
               status_message_ids |-> [banque |-> 1, marchandises |-> 2]],
      msgs |-> [i \in {1, 2} |->
                  IF i = 1
                  THEN [channel |-> Channel(HomeGuild, CHANNEL_BANQUE),
                        content |-> [kind |-> "banque", propre |-> 1, sale |-> 2,
                                     timestamp |-> 0]]
                  ELSE [channel |-> Channel(HomeGuild, CHANNEL_MARCH),
                        content |-> [kind |-> "marchandises",
                                     fields |-> [k \in Names |->
                                                   IF k = "crates" THEN 2 ELSE 1],
                                     description |-> None, timestamp |-> 0]]]]}

\* bot.guilds: the one guild the instructions speak of, with its four channels
OneGuild == {[g \in {HomeGuild} |-> AllChannels]}

\* bot.guilds when the bot is in a second guild set up the same way
TwoGuilds == {[g \in {HomeGuild, HomeGuild + 1} |-> AllChannels]}

\* the handler tasks: two commands are in flight at once at most, and a task
\* that has returned serves the next invocation
Tasks == {1, 2}

VARIABLES
    DATA,           \* the in-memory document
    file,           \* the content of data.json
    DATA_LOCK,      \* [holder : a task or 0, waiters : the tasks queued on it]
    tasks,          \* the command handlers: position, interaction, locals
    history,        \* the messages of the history channel, oldest first
    messages,       \* the status-channel messages that exist: id -> [channel, content]
    nextId,         \* the id the next created message gets
    text_channels,  \* bot.guilds: guild id -> the names of its text channels
    serial,         \* the calls, with their task and user, in the order they
                    \* acquired DATA_LOCK; ok: the call assigned to DATA
    doc0,           \* the document load_data returned when the process started
    invoked,        \* the number of commands invoked so far
    SAVE_LOCK,      \* the task inside save_data's `async with SAVE_LOCK`, or 0
    ready,          \* the on_ready task: position, guild at hand, locals
    clock           \* datetime.utcnow()

vars ==
    <<DATA, file, DATA_LOCK, tasks, history, messages, nextId, text_channels,
      serial, doc0, invoked, SAVE_LOCK, ready, clock>>

(***************************************************************************)
(* HELPERS                                                                 *)
(***************************************************************************)
Max(a, b) == IF a >= b THEN a ELSE b

is_user_allowed(user) ==
    IF user.id \in ALLOWED_USER_IDS
    THEN TRUE
    ELSE IF (user.name \o "#" \o user.discriminator) \in ALLOWED_USER_NAMES
         THEN TRUE
         ELSE FALSE

get_channel_by_name(guild, name) ==
    IF name \in text_channels[guild] THEN Channel(guild, name) ELSE NoChannel

\* the permission check without its channel test
check_allowed_and_channel_nochannel(user, channel) ==
    IF ~is_user_allowed(user) THEN "not_allowed" ELSE "ok"

\* the outcome of the permission check: "ok", or the rejection it sends
check_allowed_and_channel(user, channel) ==
    IF ~is_user_allowed(user) THEN "not_allowed"
    ELSE IF channel = None \/ channel # CHANNEL_CMD THEN "wrong_channel"
    ELSE "ok"

\* the members of a set in some order
SetToSeq(S) ==
    CHOOSE q \in [1..Cardinality(S) -> S] : \A i, j \in 1..Cardinality(S) : q[i] = q[j] => i = j

\* JSON values: a number, null, an object with its members in order
JsonNumber(n) == [t |-> "number", n |-> n]
JsonNull == [t |-> "null"]
JsonObject(members) == [t |-> "object", members |-> members]

\* the states of data.json that are no JSON document: no file, and a file
\* that was opened for writing and not written to its end
NoFile == [t |-> "absent"]
Truncated == [t |-> "truncated"]

\* the value of member `key` of a JSON object
member(obj, key) ==
    LET i == CHOOSE i \in 1..Len(obj.members) : obj.members[i][1] = key
    IN obj.members[i][2]

\* json.dump of the document: None becomes null
json_dump(data) ==
    LET id(v) == IF v = NoId THEN JsonNull ELSE JsonNumber(v)
        names == SetToSeq(DOMAIN data.marchandises)
    IN JsonObject(<<
        <<"propre", JsonNumber(data.propre)>>,
        <<"sale", JsonNumber(data.sale)>>,
        <<"marchandises",
          JsonObject([i \in 1..Len(names) |->
                        <<names[i], JsonNumber(data.marchandises[names[i]])>>])>>,
        <<"status_message_ids",
          JsonObject(<<<<"banque", id(data.status_message_ids.banque)>>,
                       <<"marchandises", id(data.status_message_ids.marchandises)>>>>)>>
       >>)

\* json.load of a document: null becomes None
json_load(text) ==
    LET id(v) == IF v.t = "null" THEN NoId ELSE v.n
        march == member(text, "marchandises")
        ids == member(text, "status_message_ids")
    IN [propre |-> member(text, "propre").n,
        sale |-> member(text, "sale").n,
        marchandises |->
            [k \in {march.members[i][1] : i \in 1..Len(march.members)} |->
                member(march, k).n],
        status_message_ids |->
            [banque |-> id(member(ids, "banque")),
             marchandises |-> id(member(ids, "marchandises"))]]

\* a load that, with no file, returns the default document and writes nothing
load_data_nowrite(f) ==
    IF f = NoFile
    THEN [file |-> NoFile, data |-> DEFAULT_DATA]
    ELSE [file |-> f, data |-> json_load(f)]

\* load_data: the document read, and the file as load_data leaves it; with no
\* file it writes the default document and returns a copy of it
load_data(f) ==
    IF f = NoFile
    THEN [file |-> json_dump(DEFAULT_DATA), data |-> DEFAULT_DATA]
    ELSE [file |-> f, data |-> json_load(f)]

\* a save that writes the document as it was before the assignment
save_data_stale(data) ==
    /\ SAVE_LOCK = 0
    /\ file' = json_dump(DATA)
    /\ SAVE_LOCK' = 0

\* save_data: SAVE_LOCK is free whenever a task gets here (no task is
\* suspended inside it); the file is rewritten with the whole document and
\* the lock is left
save_data(data) ==
    /\ SAVE_LOCK = 0
    /\ file' = json_dump(data)
    /\ SAVE_LOCK' = 0

\* fetch_message: the message if it exists in that channel, None (0) when the
\* id is null or the fetch raises
fetch_message(chan, id) ==
    IF chan # NoChannel /\ id # NoId /\ id \in DOMAIN messages /\ messages[id].channel = chan
    THEN id
    ELSE NoId

(***************************************************************************)
(* COMMANDS: what each handler does to the document under DATA_LOCK        *)
(***************************************************************************)
propre_in(d, montant) == [d EXCEPT !.propre = d.propre + montant]

\* a withdrawal with no floor at 0
propre_out_noclamp(d, montant) == [d EXCEPT !.propre = d.propre - montant]

propre_out(d, montant) == [d EXCEPT !.propre = Max(0, d.propre - montant)]

\* a deposit of dirty money that is added to the clean balance as well
sale_in_both(d, montant) ==
    [d EXCEPT !.sale = d.sale + montant, !.propre = d.propre + montant]

sale_in(d, montant) == [d EXCEPT !.sale = d.sale + montant]

sale_out(d, montant) == [d EXCEPT !.sale = Max(0, d.sale - montant)]

new_marchandise(d, nom) ==
    [d EXCEPT !.marchandises =
        [k \in DOMAIN d.marchandises \cup {nom} |->
            IF k = nom THEN 0 ELSE d.marchandises[k]]]

\* a deletion that empties the item and keeps its name
delete_marchandise_zero(d, nom) == [d EXCEPT !.marchandises[nom] = 0]

delete_marchandise(d, nom) ==
    [d EXCEPT !.marchandises =
        [k \in DOMAIN d.marchandises \ {nom} |-> d.marchandises[k]]]

marchandise_in(d, nom, quantite) ==
    [d EXCEPT !.marchandises[nom] = d.marchandises[nom] + quantite]

\* a stock withdrawal with no floor at 0
marchandise_out_noclamp(d, nom, quantite) ==
    [d EXCEPT !.marchandises[nom] = d.marchandises[nom] - quantite]

marchandise_out(d, nom, quantite) ==
    [d EXCEPT !.marchandises[nom] = Max(0, d.marchandises[nom] - quantite)]

clean_propre(d) == [d EXCEPT !.propre = 0]

\* a reset of the dirty balance that zeroes the clean one
clean_sale_wrongfield(d) == [d EXCEPT !.propre = 0]

clean_sale(d) == [d EXCEPT !.sale = 0]

clean_marchandise(d, nom) == [d EXCEPT !.marchandises[nom] = 0]

\* a reset of all items that empties the map
clean_marchandise_all_empty(d) == [d EXCEPT !.marchandises = EmptyMap]

clean_marchandise_all(d) ==
    [d EXCEPT !.marchandises = [k \in DOMAIN d.marchandises |-> 0]]

\* the early returns without the test for an existing name
domain_check_nodup(d, c) ==
    IF c.cmd \in {"delete_marchandise", "marchandise_in", "marchandise_out",
                  "clean_marchandise"}
    THEN IF c.nom \notin DOMAIN d.marchandises THEN "not_found" ELSE "ok"
    ELSE "ok"

\* the early return inside the lock: "duplicate", "not_found", or "ok"
domain_check(d, c) ==
    IF c.cmd = "new_marchandise"
    THEN IF c.nom \in DOMAIN d.marchandises THEN "duplicate" ELSE "ok"
    ELSE IF c.cmd \in {"delete_marchandise", "marchandise_in", "marchandise_out",
                       "clean_marchandise"}
         THEN IF c.nom \notin DOMAIN d.marchandises THEN "not_found" ELSE "ok"
         ELSE "ok"

\* the handler's assignment to DATA
mutate(d, c) ==
    CASE c.cmd = "propre_in" -> propre_in(d, c.montant)
      [] c.cmd = "propre_out" -> propre_out(d, c.montant)
      [] c.cmd = "sale_in" -> sale_in(d, c.montant)
      [] c.cmd = "sale_out" -> sale_out(d, c.montant)
      [] c.cmd = "new_marchandise" -> new_marchandise(d, c.nom)
      [] c.cmd = "delete_marchandise" -> delete_marchandise(d, c.nom)
      [] c.cmd = "marchandise_in" -> marchandise_in(d, c.nom, c.montant)
      [] c.cmd = "marchandise_out" -> marchandise_out(d, c.nom, c.montant)
      [] c.cmd = "clean_propre" -> clean_propre(d)
      [] c.cmd = "clean_sale" -> clean_sale(d)
      [] c.cmd = "clean_marchandise" -> clean_marchandise(d, c.nom)
      [] c.cmd = "clean_marchandise_all" -> clean_marchandise_all(d)

(***************************************************************************)
(* STATUS MESSAGES                                                         *)
(***************************************************************************)
NoEmbed == [kind |-> "none"]

\* a banque embed with the two balances under each other's name
embed_b_swapped(d, now) ==
    [kind |-> "banque", propre |-> d.sale, sale |-> d.propre, timestamp |-> now]

\* update_status_messages: the banque embed built from the document at time now
embed_b(d, now) ==
    [kind |-> "banque", propre |-> d.propre, sale |-> d.sale, timestamp |-> now]

\* update_status_messages: the marchandises embed built from the document at
\* time now
embed_m(d, now) ==
    IF DOMAIN d.marchandises # {}
    THEN [kind |-> "marchandises", fields |-> d.marchandises, description |-> None,
          timestamp |-> now]
    ELSE [kind |-> "marchandises", fields |-> EmptyMap,
          description |-> "Aucune marchandise enregistree", timestamp |-> now]

\* message.edit: the message takes the embed; on a deleted message it raises,
\* which update_status_messages swallows
edit(msgs, id, embed) ==
    IF id \in DOMAIN msgs THEN [msgs EXCEPT ![id].content = embed] ELSE msgs

\* handlers whose status lookup is one try block around both fetches, with no
\* test of the id: a failed banque fetch skips the marchandises fetch
SingleTryCmds == Commands \ MoneyCmds

(***************************************************************************)
(* TASKS                                                                   *)
(***************************************************************************)
NoCall == [cmd |-> None, nom |-> None, montant |-> 0]
NoUser == [id |-> None, name |-> None, discriminator |-> None]

IdleTask ==
    [pc |-> "idle", call |-> NoCall, user |-> NoUser, channel |-> None,
     resp |-> None, fetch_id |-> NoId, banque_msg |-> NoId, march_msg |-> NoId,
     embed |-> NoEmbed]

\* the handler returned: its interaction and its locals are gone, the response
\* the caller got stays
Return(task) == [IdleTask EXCEPT !.pc = "done", !.resp = task.resp]

\* an exception left the handler: it is logged and the task ends
Raise(task) == [IdleTask EXCEPT !.pc = "raised", !.resp = task.resp]

\* the positions of a task that is not running
Ended == {"idle", "done", "raised"}

\* the on_ready task before the event fires: runs counts the times it fired,
\* first_id is the id the next message had when this run began
IdleReady ==
    [pc |-> "idle", guild |-> 0, fetch_id |-> NoId, banque_msg |-> NoId,
     march_msg |-> NoId, embed |-> NoEmbed, runs |-> 0, first_id |-> 0]

\* the state once the module is loaded: DATA = load_data(), on a data.json a
\* previous run left or on none
InitOf(starts, guilds) ==
    /\ \E s \in starts :
        LET loaded == load_data(IF s.doc = DEFAULT_DATA THEN NoFile ELSE json_dump(s.doc))
        IN /\ DATA = loaded.data
           /\ file = loaded.file
           /\ doc0 = loaded.data
           /\ messages = s.msgs
           /\ nextId = Cardinality(DOMAIN s.msgs) + 1
    /\ text_channels \in guilds
    /\ DATA_LOCK = [holder |-> 0, waiters |-> <<>>]
    /\ SAVE_LOCK = 0
    /\ tasks = [t \in Tasks |-> IdleTask]
    /\ ready = IdleReady
    /\ clock = 0
    /\ history = <<>>
    /\ serial = <<>>
    /\ invoked = 0

Init == InitOf(Starts, OneGuild)

\* a release that leaves the lock with its holder
release_kept(lock) == lock

\* asyncio.Lock.release: the lock passes to the first waiter, if any
release(lock) ==
    IF lock.waiters = <<>>
    THEN [holder |-> 0, waiters |-> <<>>]
    ELSE [holder |-> Head(lock.waiters), waiters |-> Tail(lock.waiters)]

\* the tasks after DATA_LOCK is released by t, whose record becomes mine
AfterRelease(t, mine) ==
    [u \in Tasks |->
        IF u = t THEN mine
        ELSE IF DATA_LOCK.waiters # <<>> /\ u = Head(DATA_LOCK.waiters)
             THEN [tasks[u] EXCEPT !.pc = "locked"]
             ELSE tasks[u]]

(* A command is invoked: Discord delivers the interaction and the handler   *)
(* is scheduled as a task.                                                  *)
Invoke(t, user, channel, call) ==
    /\ invoked < MaxCmds
    /\ invoked' = invoked + 1
    /\ tasks[t].pc \in Ended
    /\ \A u \in Tasks : u < t => tasks[u].pc \notin Ended
    /\ tasks' = [tasks EXCEPT ![t] =
            [IdleTask EXCEPT !.pc = "start", !.call = call, !.user = user,
                             !.channel = channel]]
    /\ UNCHANGED <<DATA, file, DATA_LOCK, history, messages, nextId, text_channels,
                   serial, doc0, SAVE_LOCK, ready, clock>>

(* The handler runs check_allowed_and_channel and either sends the          *)
(* rejection and returns, or reaches `async with DATA_LOCK`, which it       *)
(* enters at once if the lock is free and queues on otherwise.              *)
Start(t) ==
    /\ tasks[t].pc = "start"
    /\ LET verdict == check_allowed_and_channel(tasks[t].user, tasks[t].channel)
       IN IF verdict # "ok"
          THEN /\ tasks' = [tasks EXCEPT ![t] = Return([tasks[t] EXCEPT !.resp = verdict])]
               /\ UNCHANGED DATA_LOCK
          ELSE IF DATA_LOCK.holder = 0
               THEN /\ DATA_LOCK' = [DATA_LOCK EXCEPT !.holder = t]
                    /\ tasks' = [tasks EXCEPT ![t].pc = "locked"]
               ELSE /\ DATA_LOCK' = [DATA_LOCK EXCEPT !.waiters = Append(@, t)]
                    /\ tasks' = [tasks EXCEPT ![t].pc = "waiting"]
    /\ UNCHANGED <<DATA, file, history, messages, nextId, text_channels,
                   serial, doc0, invoked, SAVE_LOCK, ready, clock>>

(* The body of `async with DATA_LOCK`.  On a duplicate or unknown name the  *)
(* handler sends its reply inside the lock; otherwise it assigns to DATA,   *)
(* saves, and leaves the lock.                                              *)
Critical(t) ==
    /\ tasks[t].pc = "locked"
    /\ DATA_LOCK.holder = t
    /\ serial' = Append(serial, [task |-> t, call |-> tasks[t].call,
                                  user |-> tasks[t].user,
                                  ok |-> domain_check(DATA, tasks[t].call) = "ok"])
    /\ LET verdict == domain_check(DATA, tasks[t].call)
       IN IF verdict # "ok"
          THEN /\ tasks' = [tasks EXCEPT ![t].pc = "reply", ![t].resp = verdict]
               /\ UNCHANGED <<DATA, file, DATA_LOCK, SAVE_LOCK>>
          ELSE /\ DATA' = mutate(DATA, tasks[t].call)
               /\ save_data(DATA')
               /\ DATA_LOCK' = release(DATA_LOCK)
               /\ tasks' = AfterRelease(t, [tasks[t] EXCEPT !.pc = "ack"])
    /\ UNCHANGED <<history, messages, nextId, text_channels, doc0, invoked,
                   ready, clock>>

(* The reply sent inside the lock has gone out: the handler returns, which  *)
(* leaves the lock.                                                         *)
Reply(t) ==
    /\ tasks[t].pc = "reply"
    /\ DATA_LOCK' = release(DATA_LOCK)
    /\ tasks' = AfterRelease(t, Return(tasks[t]))
    /\ UNCHANGED <<DATA, file, history, messages, nextId, text_channels,
                   serial, doc0, invoked, SAVE_LOCK, ready, clock>>

(* interaction.response.send_message of the success message *)
Ack(t) ==
    /\ tasks[t].pc = "ack"
    /\ tasks' = [tasks EXCEPT ![t].pc = "history", ![t].resp = "ok"]
    /\ UNCHANGED <<DATA, file, DATA_LOCK, history, messages, nextId, text_channels,
                   serial, doc0, invoked, SAVE_LOCK, ready, clock>>

\* the line post_history sends: who did what
history_entry(task) == [user |-> task.user, call |-> task.call]

(* post_history, then the lookup of the banque status message begins *)
History(t) ==
    /\ tasks[t].pc = "history"
    /\ history' = IF get_channel_by_name(HomeGuild, CHANNEL_HISTORY) # NoChannel
                  THEN Append(history, history_entry(tasks[t]))
                  ELSE history
    /\ tasks' = [tasks EXCEPT ![t].pc = "fetch_banque",
                              ![t].fetch_id = DATA.status_message_ids.banque]
    /\ UNCHANGED <<DATA, file, DATA_LOCK, messages, nextId, text_channels,
                   serial, doc0, invoked, SAVE_LOCK, ready, clock>>

(* chan_b.fetch_message(bid) *)
FetchBanque(t) ==
    /\ tasks[t].pc = "fetch_banque"
    /\ LET chan_b == get_channel_by_name(HomeGuild, CHANNEL_BANQUE)
           got == fetch_message(chan_b, tasks[t].fetch_id)
           raised == chan_b # NoChannel /\ got = NoId
       IN tasks' = [tasks EXCEPT ![t] =
            IF raised /\ tasks[t].call.cmd \in SingleTryCmds
            THEN Return(tasks[t])
            ELSE [tasks[t] EXCEPT !.pc = "fetch_march", !.banque_msg = got,
                                  !.fetch_id = DATA.status_message_ids.marchandises]]
    /\ UNCHANGED <<DATA, file, DATA_LOCK, history, messages, nextId, text_channels,
                   serial, doc0, invoked, SAVE_LOCK, ready, clock>>

(* chan_m.fetch_message(mid); with both messages in hand                    *)
(* update_status_messages starts and builds the banque embed                *)
FetchMarch(t) ==
    /\ tasks[t].pc = "fetch_march"
    /\ LET chan_m == get_channel_by_name(HomeGuild, CHANNEL_MARCH)
           got == fetch_message(chan_m, tasks[t].fetch_id)
       IN tasks' = [tasks EXCEPT ![t] =
            IF tasks[t].banque_msg # NoId /\ got # NoId
            THEN [tasks[t] EXCEPT !.pc = "edit_banque", !.march_msg = got,
                                  !.fetch_id = NoId, !.embed = embed_b(DATA, clock)]
            ELSE Return(tasks[t])]
    /\ UNCHANGED <<DATA, file, DATA_LOCK, history, messages, nextId, text_channels,
                   serial, doc0, invoked, SAVE_LOCK, ready, clock>>

(* banque_msg.edit; then the marchandises embed is built *)
EditBanque(t) ==
    /\ tasks[t].pc = "edit_banque"
    /\ messages' = edit(messages, tasks[t].banque_msg, tasks[t].embed)
    /\ tasks' = [tasks EXCEPT ![t].pc = "edit_march", ![t].embed = embed_m(DATA, clock)]
    /\ UNCHANGED <<DATA, file, DATA_LOCK, history, nextId, text_channels,
                   serial, doc0, invoked, SAVE_LOCK, ready, clock>>

(* march_msg.edit; the handler returns *)
EditMarch(t) ==
    /\ tasks[t].pc = "edit_march"
    /\ messages' = edit(messages, tasks[t].march_msg, tasks[t].embed)
    /\ tasks' = [tasks EXCEPT ![t] = Return(tasks[t])]
    /\ UNCHANGED <<DATA, file, DATA_LOCK, history, nextId, text_channels,
                   serial, doc0, invoked, SAVE_LOCK, ready, clock>>

(* Someone deletes a status message in Discord *)
DeleteMessage(id) ==
    /\ id \in DOMAIN messages
    /\ messages' = [i \in DOMAIN messages \ {id} |-> messages[i]]
    /\ UNCHANGED <<DATA, file, DATA_LOCK, tasks, history, nextId, text_channels,
                   serial, doc0, invoked, SAVE_LOCK, ready, clock>>

\* no command handler is running
NoneRunning == \A t \in Tasks : tasks[t].pc \in Ended

(* Someone deletes a status message while no command is in flight *)
DeleteIdle(id) == NoneRunning /\ DeleteMessage(id)

(* Time passes *)
Tick ==
    /\ clock < MaxClock
    /\ clock' = clock + 1
    /\ UNCHANGED <<DATA, file, DATA_LOCK, tasks, history, messages, nextId,
                   text_channels, serial, doc0, invoked, SAVE_LOCK, ready>>

(***************************************************************************)
(* FAILURES of the calls a handler awaits                                  *)
(***************************************************************************)
\* a save whose write fails and that keeps SAVE_LOCK
save_data_fails_held(data, t) ==
    /\ SAVE_LOCK = 0
    /\ file' \in {file, Truncated}
    /\ SAVE_LOCK' = t

\* save_data when the write fails: open() raises and the file is as it was,
\* or json.dump raises on a file already truncated; `async with` leaves
\* SAVE_LOCK as the exception passes
save_data_fails(data, t) ==
    /\ SAVE_LOCK = 0
    /\ file' \in {file, Truncated}
    /\ SAVE_LOCK' = 0

(* The body of `async with DATA_LOCK` when save_data raises: the assignment *)
(* to DATA is done, the exception leaves the lock and the handler           *)
WriteFails(t) ==
    /\ tasks[t].pc = "locked"
    /\ DATA_LOCK.holder = t
    /\ domain_check(DATA, tasks[t].call) = "ok"
    /\ serial' = Append(serial, [task |-> t, call |-> tasks[t].call,
                                  user |-> tasks[t].user, ok |-> TRUE])
    /\ DATA' = mutate(DATA, tasks[t].call)
    /\ save_data_fails(DATA', t)
    /\ DATA_LOCK' = release(DATA_LOCK)
    /\ tasks' = AfterRelease(t, Raise(tasks[t]))
    /\ UNCHANGED <<history, messages, nextId, text_channels, doc0, invoked,
                   ready, clock>>

(* interaction.response.send_message of the success message raises (the    *)
(* interaction has expired, the request fails): the exception leaves the    *)
(* handler                                                                  *)
AckFails(t) ==
    /\ tasks[t].pc = "ack"
    /\ tasks' = [tasks EXCEPT ![t] = Raise(tasks[t])]
    /\ UNCHANGED <<DATA, file, DATA_LOCK, history, messages, nextId, text_channels,
                   serial, doc0, invoked, SAVE_LOCK, ready, clock>>

(* ch.send in post_history raises: nothing catches it, the exception leaves *)
(* post_history and the handler                                             *)
HistoryFails(t) ==
    /\ tasks[t].pc = "history"
    /\ get_channel_by_name(HomeGuild, CHANNEL_HISTORY) # NoChannel
    /\ tasks' = [tasks EXCEPT ![t] = Raise(tasks[t])]
    /\ UNCHANGED <<DATA, file, DATA_LOCK, history, messages, nextId, text_channels,
                   serial, doc0, invoked, SAVE_LOCK, ready, clock>>

(* fetch_message raises on a message that exists (the request fails): the   *)
(* try block catches it and the message counts as None                      *)
FetchFails(t) ==
    /\ tasks[t].pc \in {"fetch_banque", "fetch_march"}
    /\ tasks[t].fetch_id \in DOMAIN messages
    /\ tasks' = [tasks EXCEPT ![t] =
            IF tasks[t].pc = "fetch_banque" /\ tasks[t].call.cmd \in MoneyCmds
            THEN [tasks[t] EXCEPT !.pc = "fetch_march", !.banque_msg = NoId,
                                  !.fetch_id = DATA.status_message_ids.marchandises]
            ELSE Return(tasks[t])]
    /\ UNCHANGED <<DATA, file, DATA_LOCK, history, messages, nextId, text_channels,
                   serial, doc0, invoked, SAVE_LOCK, ready, clock>>

(* message.edit raises: update_status_messages passes over it *)
EditFails(t) ==
    /\ tasks[t].pc \in {"edit_banque", "edit_march"}
    /\ tasks' = [tasks EXCEPT ![t] =
            IF tasks[t].pc = "edit_banque"
            THEN [tasks[t] EXCEPT !.pc = "edit_march", !.embed = embed_m(DATA, clock)]
            ELSE Return(tasks[t])]
    /\ UNCHANGED <<DATA, file, DATA_LOCK, history, messages, nextId, text_channels,
                   serial, doc0, invoked, SAVE_LOCK, ready, clock>>

\* a failed reply that leaves DATA_LOCK with the handler that raised
ReplyFails_held(t) ==
    /\ tasks[t].pc = "reply"
    /\ tasks' = [tasks EXCEPT ![t] = Raise(tasks[t])]
    /\ UNCHANGED <<DATA, file, DATA_LOCK, history, messages, nextId, text_channels,
                   serial, doc0, invoked, SAVE_LOCK, ready, clock>>

(* interaction.response.send_message of the duplicate / unknown name reply  *)
(* raises inside `async with DATA_LOCK`: the exception leaves the lock and  *)
(* the handler                                                              *)
ReplyFails(t) ==
    /\ tasks[t].pc = "reply"
    /\ DATA_LOCK' = release(DATA_LOCK)
    /\ tasks' = AfterRelease(t, Raise(tasks[t]))
    /\ UNCHANGED <<DATA, file, history, messages, nextId, text_channels,
                   serial, doc0, invoked, SAVE_LOCK, ready, clock>>

(***************************************************************************)
(* on_ready: for each guild, ensure_status_messages, then                  *)
(* update_status_messages                                                  *)
(***************************************************************************)
\* on_ready returns (bot.tree.sync is passed over)
ReadyReturn(r) == [IdleReady EXCEPT !.pc = "done", !.runs = r.runs, !.first_id = r.first_id]

\* an exception leaves on_ready
ReadyRaise(r) == [IdleReady EXCEPT !.pc = "raised", !.runs = r.runs, !.first_id = r.first_id]

\* ensure_status_messages from `# marchandises` on: the fetch of the
\* referenced message, or with no reference the send
ensure_march(r) ==
    IF DATA.status_message_ids.marchandises # NoId
    THEN [r EXCEPT !.pc = "fetch_march", !.fetch_id = DATA.status_message_ids.marchandises]
    ELSE [r EXCEPT !.pc = "send_march", !.fetch_id = NoId]

\* the loop of on_ready from guild g on: a guild without one of the two
\* status channels is passed over; in the first other guild
\* ensure_status_messages fetches the referenced banque message, or with no
\* reference sends one
RECURSIVE for_guild(_, _)
for_guild(r, g) ==
    IF g \notin DOMAIN text_channels
    THEN ReadyReturn(r)
    ELSE IF get_channel_by_name(g, CHANNEL_BANQUE) = NoChannel
            \/ get_channel_by_name(g, CHANNEL_MARCH) = NoChannel
         THEN for_guild(r, g + 1)
         ELSE LET bid == DATA.status_message_ids.banque
                  here == [r EXCEPT !.guild = g, !.banque_msg = NoId, !.march_msg = NoId,
                                    !.embed = NoEmbed]
              IN IF bid # NoId
                 THEN [here EXCEPT !.pc = "fetch_banque", !.fetch_id = bid]
                 ELSE [here EXCEPT !.pc = "send_banque", !.fetch_id = NoId]

\* a message just sent by ensure_status_messages
sent(msgs, id, chan) ==
    [i \in DOMAIN msgs \cup {id} |->
        IF i = id THEN [channel |-> chan, content |-> Loading] ELSE msgs[i]]

(* The bot is connected (again): on_ready is scheduled and runs to its      *)
(* first await                                                              *)
OnReady ==
    /\ ready.pc \in Ended
    /\ ready.runs < MaxReady
    /\ ready' = for_guild([IdleReady EXCEPT !.runs = ready.runs + 1,
                                            !.first_id = nextId], 1)
    /\ UNCHANGED <<DATA, file, DATA_LOCK, tasks, history, messages, nextId,
                   text_channels, serial, doc0, invoked, SAVE_LOCK, clock>>

(* chan_banque.fetch_message(bid) returns or raises *)
ReadyFetchBanque ==
    /\ ready.pc = "fetch_banque"
    /\ LET got == fetch_message(Channel(ready.guild, CHANNEL_BANQUE), ready.fetch_id)
       IN ready' = IF got # NoId
                   THEN ensure_march([ready EXCEPT !.banque_msg = got])
                   ELSE [ready EXCEPT !.pc = "send_banque", !.fetch_id = NoId]
    /\ UNCHANGED <<DATA, file, DATA_LOCK, tasks, history, messages, nextId,
                   text_channels, serial, doc0, invoked, SAVE_LOCK, clock>>

(* chan_banque.send returns: the id is recorded in the document and saved,  *)
(* with no lock on the document                                             *)
ReadySendBanque ==
    /\ ready.pc = "send_banque"
    /\ messages' = sent(messages, nextId, Channel(ready.guild, CHANNEL_BANQUE))
    /\ nextId' = nextId + 1
    /\ DATA' = [DATA EXCEPT !.status_message_ids.banque = nextId]
    /\ save_data(DATA')
    /\ ready' = ensure_march([ready EXCEPT !.banque_msg = nextId])
    /\ UNCHANGED <<DATA_LOCK, tasks, history, text_channels, serial, doc0, invoked,
                   clock>>

(* chan_march.fetch_message(mid) returns or raises; with both messages      *)
(* update_status_messages builds the banque embed                           *)
ReadyFetchMarch ==
    /\ ready.pc = "fetch_march"
    /\ LET got == fetch_message(Channel(ready.guild, CHANNEL_MARCH), ready.fetch_id)
       IN ready' = IF got # NoId
                   THEN [ready EXCEPT !.pc = "edit_banque", !.march_msg = got,
                                      !.fetch_id = NoId, !.embed = embed_b(DATA, clock)]
                   ELSE [ready EXCEPT !.pc = "send_march", !.fetch_id = NoId]
    /\ UNCHANGED <<DATA, file, DATA_LOCK, tasks, history, messages, nextId,
                   text_channels, serial, doc0, invoked, SAVE_LOCK, clock>>

(* chan_march.send returns: the id is recorded and saved; ensure returns    *)
(* and update_status_messages builds the banque embed                       *)
ReadySendMarch ==
    /\ ready.pc = "send_march"
    /\ messages' = sent(messages, nextId, Channel(ready.guild, CHANNEL_MARCH))
    /\ nextId' = nextId + 1
    /\ DATA' = [DATA EXCEPT !.status_message_ids.marchandises = nextId]
    /\ save_data(DATA')
    /\ ready' = [ready EXCEPT !.pc = "edit_banque", !.march_msg = nextId,
                              !.embed = embed_b(DATA, clock)]
    /\ UNCHANGED <<DATA_LOCK, tasks, history, text_channels, serial, doc0, invoked,
                   clock>>

(* banque_msg.edit returns or raises (on a message deleted meanwhile); the  *)
(* marchandises embed is built                                              *)
ReadyEditBanque ==
    /\ ready.pc = "edit_banque"
    /\ messages' = edit(messages, ready.banque_msg, ready.embed)
    /\ ready' = [ready EXCEPT !.pc = "edit_march", !.embed = embed_m(DATA, clock)]
    /\ UNCHANGED <<DATA, file, DATA_LOCK, tasks, history, nextId, text_channels,
                   serial, doc0, invoked, SAVE_LOCK, clock>>

(* march_msg.edit returns or raises; on_ready goes to the next guild *)
ReadyEditMarch ==
    /\ ready.pc = "edit_march"
    /\ messages' = edit(messages, ready.march_msg, ready.embed)
    /\ ready' = for_guild(ready, ready.guild + 1)
    /\ UNCHANGED <<DATA, file, DATA_LOCK, tasks, history, nextId, text_channels,
                   serial, doc0, invoked, SAVE_LOCK, clock>>

(* chan.send in ensure_status_messages raises: nothing catches it, the      *)
(* exception leaves ensure_status_messages and on_ready                     *)
ReadySendFails ==
    /\ ready.pc \in {"send_banque", "send_march"}
    /\ ready' = ReadyRaise(ready)
    /\ UNCHANGED <<DATA, file, DATA_LOCK, tasks, history, messages, nextId,
                   text_channels, serial, doc0, invoked, SAVE_LOCK, clock>>

(* fetch_message raises on a message that exists: it counts as None and a   *)
(* new message is sent                                                      *)
ReadyFetchFails ==
    /\ ready.pc \in {"fetch_banque", "fetch_march"}
    /\ ready.fetch_id \in DOMAIN messages
    /\ ready' = [ready EXCEPT !.pc = IF ready.pc = "fetch_banque" THEN "send_banque"
                                                                 ELSE "send_march",
                              !.fetch_id = NoId]
    /\ UNCHANGED <<DATA, file, DATA_LOCK, tasks, history, messages, nextId,
                   text_channels, serial, doc0, invoked, SAVE_LOCK, clock>>

(* message.edit raises on a message that exists: update_status_messages     *)
(* passes over it                                                           *)
ReadyEditFails ==
    /\ ready.pc \in {"edit_banque", "edit_march"}
    /\ ready' = IF ready.pc = "edit_banque"
                THEN [ready EXCEPT !.pc = "edit_march", !.embed = embed_m(DATA, clock)]
                ELSE for_guild(ready, ready.guild + 1)
    /\ UNCHANGED <<DATA, file, DATA_LOCK, tasks, history, messages, nextId,
                   text_channels, serial, doc0, invoked, SAVE_LOCK, clock>>

\* the steps of on_ready once it has fired
ReadySteps ==
    \/ ReadyFetchBanque
    \/ ReadySendBanque
    \/ ReadyFetchMarch
    \/ ReadySendMarch
    \/ ReadyEditBanque
    \/ ReadyEditMarch

\* the steps of on_ready
Ready ==
    \/ OnReady
    \/ ReadyFetchBanque
    \/ ReadySendBanque
    \/ ReadyFetchMarch
    \/ ReadySendMarch
    \/ ReadyEditBanque
    \/ ReadyEditMarch

\* the steps of a handler that every command has
Handler(t) ==
    \/ Start(t)
    \/ Critical(t)
    \/ Ack(t)
    \/ History(t)
    \/ FetchBanque(t)
    \/ FetchMarch(t)
    \/ EditBanque(t)
    \/ EditMarch(t)

\* commands from the callers `who` with the calls `calls`
NextOf(who, calls) ==
    \/ \E t \in Tasks, w \in who, call \in calls : Invoke(t, w.user, w.channel, call)
    \/ \E t \in Tasks : Handler(t)
    \/ \E t \in Tasks : Reply(t)

(* Every caller, every command, every parameter *)
Next == NextOf(Callers, Calls)

Spec == Init /\ [][Next]_vars

\* a caller on the id allow-list, in the command channel
Owner == {w \in Callers : w.user.id \in ALLOWED_USER_IDS /\ w.channel = CHANNEL_CMD}

\* the callers the permission check turns away: a user on no list, and a
\* listed user in another channel or in none
Turned == {w \in Callers : ~is_user_allowed(w.user) \/ w.channel # CHANNEL_CMD}

\* one command of each handler shape
SomeCalls ==
    {c \in Calls :
        /\ c.cmd \in {"propre_in", "sale_out", "new_marchandise", "marchandise_out",
                      "clean_marchandise_all"}
        /\ c.nom \in {None, "crates"}
        /\ c.montant \in {0, 2}}

\* every command once, on crates, with amount 2
OneOfEach == {c \in Calls : c.nom \in {None, "crates"} /\ c.montant \in {0, 2}}

\* the commands on the two balances
MoneyCalls == {c \in Calls : c.cmd \in MoneyCmds \cup {"clean_propre", "clean_sale"}}

\* the commands on the merchandise map
ItemCalls ==
    {c \in Calls : c.cmd \in ItemQtyCmds \cup ItemCmds \cup {"clean_marchandise_all"}}

\* the resets of one value, and commands that give them something to reset
ResetCalls ==
    {c \in Calls :
        \/ c.cmd \in {"clean_propre", "clean_sale", "clean_marchandise"}
        \/ c.cmd \in {"propre_in", "sale_in"} /\ c.montant = 2
        \/ c.cmd \in {"marchandise_in", "delete_marchandise"} /\ c.nom = "crates"
                                                             /\ c.montant \in {0, 2}}

\* the process starts on a data.json a previous run left, its status messages
\* in place
Populated == {st \in Starts : st.doc # DEFAULT_DATA}

(* The balance commands, by an allowed caller; no command of these returns *)
(* inside the lock                                                          *)
NextMoney ==
    \/ \E t \in Tasks, w \in Owner, call \in MoneyCalls :
        Invoke(t, w.user, w.channel, call)
    \/ \E t \in Tasks : Handler(t)

SpecMoney == Init /\ [][NextMoney]_vars

(* The merchandise commands, by an allowed caller *)
NextItems == NextOf(Owner, ItemCalls)

SpecItems == Init /\ [][NextItems]_vars

\* the quantity commands, and a deletion that makes a name absent
QtyCalls ==
    {c \in Calls :
        \/ c.cmd \in ItemQtyCmds
        \/ c.cmd = "delete_marchandise" /\ c.nom = "crates"}

(* The quantity commands on a stocked map, by an allowed caller *)
NextQty == NextOf(Owner, QtyCalls)

SpecQty == InitOf(Populated, OneGuild) /\ [][NextQty]_vars

(* The resets, by an allowed caller *)
NextResets == NextOf(Owner, ResetCalls)

SpecResets == Init /\ [][NextResets]_vars

(* Every command once, by an allowed caller *)
NextAll == NextOf(Owner, OneOfEach)

SpecAll == Init /\ [][NextAll]_vars

(* Every command by the callers the permission check turns away, beside *)
(* commands by an allowed caller                                         *)
NextGuard ==
    \/ \E t \in Tasks, w \in Turned, call \in OneOfEach :
        Invoke(t, w.user, w.channel, call)
    \/ NextOf(Owner, SomeCalls)

SpecGuard == InitOf(Populated, OneGuild) /\ [][NextGuard]_vars

\* a guild set up as asked, and one whose history channel is missing
HistoryOrNot == {[g \in {HomeGuild} |-> chans] : chans \in {AllChannels, AllChannels \ {CHANNEL_HISTORY}}}

\* an allowed caller and one the permission check turns away, both in the
\* command channel
TwoCallers == {w \in Callers : w.channel = CHANNEL_CMD /\ w.user.name # "Alpha-1"}

(* Commands whose acknowledgement may fail to go out *)
NextAck ==
    \/ NextOf(TwoCallers, SomeCalls)
    \/ \E t \in Tasks : AckFails(t)

SpecAck == InitOf(Populated, HistoryOrNot) /\ [][NextAck]_vars

(* Commands by an allowed caller, on a first run without status messages   *)
(* or after a run that left them; between commands a status message may be *)
(* deleted                                                                  *)
NextRefresh ==
    \/ NextOf(Owner, SomeCalls)
    \/ \E id \in 1..2 : DeleteIdle(id)

SpecRefresh == Init /\ [][NextRefresh]_vars

(* on_ready runs while commands by an allowed caller are handled *)
NextEnsure ==
    \/ NextOf(Owner, SomeCalls)
    \/ Ready

SpecEnsure == Init /\ [][NextEnsure]_vars

(* Commands by an allowed caller, any of whose writes of data.json may fail *)
NextWrite ==
    \/ NextOf(Owner, SomeCalls)
    \/ \E t \in Tasks : WriteFails(t)

SpecWrite == InitOf(Populated, OneGuild) /\ [][NextWrite]_vars

\* a balance command and an item command, whose status lookups differ
TwoCalls ==
    {c \in Calls : \/ c.cmd = "propre_in" /\ c.montant = 2
                   \/ c.cmd = "marchandise_out" /\ c.nom = "crates" /\ c.montant = 2}

(* on_ready, fired once, and commands by an allowed caller, while any send, *)
(* fetch or edit of a status message and any post to the history channel    *)
(* may fail                                                                 *)
NextInfra ==
    \/ NextOf(Owner, TwoCalls)
    \/ \E t \in Tasks : HistoryFails(t) \/ FetchFails(t) \/ EditFails(t)
    \/ ready.runs = 0 /\ OnReady
    \/ ReadySteps
    \/ ReadySendFails
    \/ ReadyFetchFails
    \/ ReadyEditFails

SpecInfra == Init /\ [][NextInfra]_vars

\* documents to save: balances below, at and above 0, no item, one, two,
\* status ids unset, one set, both set
Docs ==
    [propre : {-1, 0, 3},
     sale : {0, 2},
     marchandises : {EmptyMap, [k \in {"crates"} |-> 2],
                     [k \in Names |-> IF k = "crates" THEN 0 ELSE 1]},
     status_message_ids : {[banque |-> NoId, marchandises |-> NoId],
                           [banque |-> 1, marchandises |-> NoId],
                           [banque |-> 1, marchandises |-> 2]}]

(* DATA takes a new value, which is saved at once: what a handler does     *)
(* under DATA_LOCK                                                          *)
Store(d) ==
    /\ DATA' = d
    /\ save_data(DATA')
    /\ UNCHANGED <<DATA_LOCK, tasks, history, messages, nextId, text_channels,
                   serial, doc0, invoked, ready, clock>>

(* data.json is removed while the process runs *)
RemoveFile ==
    /\ file # NoFile
    /\ file' = NoFile
    /\ UNCHANGED <<DATA, DATA_LOCK, tasks, history, messages, nextId, text_channels,
                   serial, doc0, invoked, SAVE_LOCK, ready, clock>>

(* The process is restarted: DATA = load_data() *)
Load ==
    /\ file # Truncated
    /\ LET loaded == load_data(file)
       IN /\ DATA' = loaded.data
          /\ file' = loaded.file
          /\ doc0' = loaded.data
    /\ UNCHANGED <<DATA_LOCK, tasks, history, messages, nextId, text_channels,
                   serial, invoked, SAVE_LOCK, ready, clock>>

(* Documents are saved, the file is removed, the process restarts *)
NextPersist ==
    \/ \E d \in Docs : Store(d)
    \/ RemoveFile
    \/ Load

SpecPersist == Init /\ [][NextPersist]_vars

(* on_ready fires, and fires again on a reconnection, while time passes and *)
(* no command runs                                                          *)
NextRender ==
    \/ Ready
    \/ Tick

SpecRender == Init /\ [][NextRender]_vars

(* on_ready fires, and fires again, with the bot in one guild or in two;    *)
(* no message is deleted, no call fails, no command runs                    *)
SpecGuilds == InitOf(Starts, OneGuild \cup TwoGuilds) /\ [][NextRender]_vars

\* a command that is accepted while the name is not on the map, and returns
\* inside the lock once it is
LiveCalls == {c \in Calls : c.cmd = "new_marchandise" /\ c.nom = "crates"}

\* the awaited call of handler t raises
HandlerFails(t) ==
    \/ WriteFails(t)
    \/ ReplyFails(t)
    \/ AckFails(t)
    \/ HistoryFails(t)
    \/ FetchFails(t)
    \/ EditFails(t)

\* the awaited call of on_ready raises
ReadyFails ==
    \/ ReadySendFails
    \/ ReadyFetchFails
    \/ ReadyEditFails

\* the call handler t awaits completes, one way or the other, and the
\* handler runs to its next await
HandlerStep(t) == Handler(t) \/ Reply(t) \/ HandlerFails(t)

\* the call on_ready awaits completes, one way or the other
ReadyStep == ReadySteps \/ ReadyFails

(* Commands by an allowed caller beside on_ready, fired once, while any     *)
(* awaited call may raise                                                   *)
NextLive ==
    \/ \E t \in Tasks, w \in Owner, call \in LiveCalls :
        Invoke(t, w.user, w.channel, call)
    \/ \E t \in Tasks : HandlerStep(t)
    \/ ready.runs = 0 /\ OnReady
    \/ ReadyStep

\* the event loop runs every task whose awaited call has completed, and
\* every call a task awaits returns or raises
SpecLive ==
    /\ Init
    /\ [][NextLive]_vars
    /\ \A t \in Tasks : WF_vars(HandlerStep(t))
    /\ WF_vars(ReadyStep)

(***************************************************************************)
(* PROPERTIES                                                              *)
(***************************************************************************)
\* the step is task t running the body of `async with DATA_LOCK`
CriticalStep(t) == tasks[t].pc = "locked" /\ tasks'[t].pc # "locked"

\* the step is task t running its permission check
StartStep(t) == tasks[t].pc = "start" /\ tasks'[t].pc # "start"

\* task t has passed the permission check and has not returned
InFlight(t) == tasks[t].pc \notin {"idle", "start", "done", "raised"}

Items(d) == DOMAIN d.marchandises

\* the calls that acquired DATA_LOCK, in that order
SerialCalls == [i \in 1..Len(serial) |-> serial[i].call]

\* C1: in every reachable state both balances and every merchandise quantity
\* are >= 0, whatever integer amounts the accepted commands carried.
C1_NonNegative ==
    /\ DATA.propre >= 0
    /\ DATA.sale >= 0
    /\ \A k \in Items(DATA) : DATA.marchandises[k] >= 0

Permitted(user, channel) == is_user_allowed(user) /\ channel = CHANNEL_CMD

\* C2: a handler whose caller is not permitted or whose channel is not the
\* command channel (or is absent) sends a rejection and stops, leaving the
\* document, the data file, the history channel, the status messages and the
\* lock as they were; only permitted invocations get past the permission check.
C2_RejectedChangesNothing ==
    [][\A t \in Tasks :
        /\ InFlight(t) => Permitted(tasks[t].user, tasks[t].channel)
        /\ (StartStep(t) /\ ~Permitted(tasks[t].user, tasks[t].channel)) =>
            /\ tasks'[t].pc = "done"
            /\ tasks'[t].resp \in {"not_allowed", "wrong_channel"}
            /\ DATA' = DATA
            /\ file' = file
            /\ history' = history
            /\ messages' = messages
            /\ DATA_LOCK' = DATA_LOCK
            /\ serial' = serial]_vars

\* both rejections have been sent while status messages exist
C2_Witness ==
    /\ \E t, u \in Tasks :
        /\ tasks[t].pc = "done" /\ tasks[t].resp = "not_allowed"
        /\ tasks[u].pc = "done" /\ tasks[u].resp = "wrong_channel"
    /\ DATA.status_message_ids.banque \in DOMAIN messages
    /\ DATA.status_message_ids.marchandises \in DOMAIN messages

\* C3: with ALLOWED_USER_IDS non-empty, every caller whose command is
\* accepted has an id on ALLOWED_USER_IDS.
C3_OnlyIdAllowList ==
    ALLOWED_USER_IDS # {} =>
        \A t \in Tasks : InFlight(t) => tasks[t].user.id \in ALLOWED_USER_IDS

Balance(d, cur) == IF cur = "propre" THEN d.propre ELSE d.sale

\* the reference fold: in(a) gives b + a, out(a) gives max(0, b - a); the
\* calls that are no in or out of this currency are passed over
RECURSIVE ClampedSum(_, _, _)
ClampedSum(b, calls, cur) ==
    IF calls = <<>> THEN b
    ELSE LET c == Head(calls)
             b1 == IF c.cmd = cur \o "_in" THEN b + c.montant
                   ELSE IF c.cmd = cur \o "_out"
                        THEN (IF b - c.montant > 0 THEN b - c.montant ELSE 0)
                        ELSE b
         IN ClampedSum(b1, Tail(calls), cur)

NoReset(cur) == \A i \in 1..Len(serial) : serial[i].call.cmd # "clean_" \o cur

\* C4: as long as a currency has not been reset, its balance after each
\* accepted command is the clamped running sum of its in and out commands,
\* from the balance the process started with.
C4_ClampedRunningSum ==
    \A cur \in {"propre", "sale"} :
        NoReset(cur) => Balance(DATA, cur) = ClampedSum(Balance(doc0, cur), SerialCalls, cur)

\* an out that was clamped at 0, then an in, on both currencies' pattern:
\* clean balance 1, out(2) gives 0, in(2) gives 2
C4_Witness ==
    /\ doc0.propre = 1
    /\ Len(serial) = 2
    /\ serial[1].call = [cmd |-> "propre_out", nom |-> None, montant |-> 2]
    /\ serial[2].call = [cmd |-> "propre_in", nom |-> None, montant |-> 2]
    /\ DATA.propre = 2

\* C5: marchandise_in / marchandise_out on a name in the map set its quantity
\* to qty + q / max(0, qty - q); on an absent name they answer not-found,
\* leave the document and the file unchanged and do not create the item.
C5_ItemInOut ==
    [][\A t \in Tasks :
        (CriticalStep(t) /\ tasks[t].call.cmd \in ItemQtyCmds) =>
            LET nom == tasks[t].call.nom
                q == tasks[t].call.montant
            IN IF nom \in Items(DATA)
               THEN /\ Items(DATA') = Items(DATA)
                    /\ DATA'.marchandises[nom] =
                        IF tasks[t].call.cmd = "marchandise_in"
                        THEN DATA.marchandises[nom] + q
                        ELSE IF DATA.marchandises[nom] - q < 0
                             THEN 0
                             ELSE DATA.marchandises[nom] - q
                    /\ tasks'[t].pc = "ack"
               ELSE /\ tasks'[t].resp = "not_found"
                    /\ DATA' = DATA
                    /\ file' = file
                    /\ nom \notin Items(DATA')]_vars

\* boxes at 1: out(2) gives 0 (clamped), then in(2) gives 2
C5_Witness ==
    /\ doc0.marchandises = [k \in Names |-> IF k = "crates" THEN 2 ELSE 1]
    /\ Len(serial) = 2
    /\ serial[1].call = [cmd |-> "marchandise_out", nom |-> "boxes", montant |-> 2]
    /\ serial[2].call = [cmd |-> "marchandise_in", nom |-> "boxes", montant |-> 2]
    /\ DATA.marchandises["boxes"] = 2

\* C6: new_marchandise on an existing name leaves the document and the file
\* unchanged, answers duplicate, posts no history entry and, on return, has
\* left DATA_LOCK; on an absent name it inserts the name with quantity 0.
C6_NewMarchandise ==
    [][\A t \in Tasks :
        tasks[t].call.cmd = "new_marchandise" =>
            LET nom == tasks[t].call.nom
            IN /\ (CriticalStep(t) /\ nom \in Items(DATA)) =>
                    /\ DATA' = DATA
                    /\ file' = file
                    /\ history' = history
                    /\ tasks'[t].resp = "duplicate"
                    /\ tasks'[t].pc = "reply"
               /\ (tasks[t].pc = "reply" /\ tasks'[t].pc # "reply") =>
                    /\ DATA' = DATA
                    /\ file' = file
                    /\ history' = history
                    /\ tasks'[t].pc = "done"
                    /\ tasks'[t].resp = "duplicate"
                    /\ DATA_LOCK'.holder # t
               /\ (CriticalStep(t) /\ nom \notin Items(DATA)) =>
                    /\ Items(DATA') = Items(DATA) \cup {nom}
                    /\ DATA'.marchandises[nom] = 0
                    /\ \A k \in Items(DATA) : DATA'.marchandises[k] = DATA.marchandises[k]]_vars

\* a duplicate new_marchandise has returned: the stock it found is intact
C6_Witness ==
    /\ \E t \in Tasks : tasks[t].pc = "done" /\ tasks[t].resp = "duplicate"
    /\ Len(serial) = 1
    /\ serial[1].call = [cmd |-> "new_marchandise", nom |-> "crates", montant |-> 0]
    /\ DATA.marchandises["crates"] = 2
    /\ DATA_LOCK.holder = 0

\* the commands that need the name to exist
NeedItemCmds == {"marchandise_in", "marchandise_out", "clean_marchandise", "delete_marchandise"}

\* C7: delete_marchandise on an absent name is a not-found no-op and on a
\* present name removes the entry; while a name is absent every
\* marchandise_in, marchandise_out, clean_marchandise and delete_marchandise
\* on it answers not-found and changes nothing; a name comes back only by
\* new_marchandise, at quantity 0.
C7_DeleteMarchandise ==
    [][/\ \A t \in Tasks :
            LET nom == tasks[t].call.nom
            IN /\ (CriticalStep(t) /\ tasks[t].call.cmd = "delete_marchandise"
                                  /\ nom \in Items(DATA)) =>
                    /\ Items(DATA') = Items(DATA) \ {nom}
                    /\ \A k \in Items(DATA') : DATA'.marchandises[k] = DATA.marchandises[k]
               /\ (CriticalStep(t) /\ tasks[t].call.cmd \in NeedItemCmds
                                  /\ nom \notin Items(DATA)) =>
                    /\ tasks'[t].resp = "not_found"
                    /\ DATA' = DATA
                    /\ file' = file
       /\ \A n \in Names :
            (n \notin Items(DATA) /\ n \in Items(DATA')) =>
                /\ DATA'.marchandises[n] = 0
                /\ \E t \in Tasks :
                    /\ CriticalStep(t)
                    /\ tasks[t].call = [cmd |-> "new_marchandise", nom |-> n, montant |-> 0]]_vars

\* crates held 2, was deleted and recreated: it holds 0
C7_Witness ==
    /\ "crates" \in Items(doc0)
    /\ doc0.marchandises["crates"] = 2
    /\ Len(serial) = 2
    /\ serial[1].call = [cmd |-> "delete_marchandise", nom |-> "crates", montant |-> 0]
    /\ serial[2].call = [cmd |-> "new_marchandise", nom |-> "crates", montant |-> 0]
    /\ DATA.marchandises["crates"] = 0

\* C8: after an accepted clean_propre the clean balance is 0, after
\* clean_sale the dirty balance is 0, after clean_marchandise on an existing
\* name its quantity is 0; on an absent name: not-found and no change.
C8_ResetToZero ==
    [][\A t \in Tasks :
        CriticalStep(t) =>
            /\ tasks[t].call.cmd = "clean_propre" => DATA'.propre = 0
            /\ tasks[t].call.cmd = "clean_sale" => DATA'.sale = 0
            /\ tasks[t].call.cmd = "clean_marchandise" =>
                IF tasks[t].call.nom \in Items(DATA)
                THEN /\ Items(DATA') = Items(DATA)
                     /\ DATA'.marchandises[tasks[t].call.nom] = 0
                ELSE /\ tasks'[t].resp = "not_found"
                     /\ DATA' = DATA]_vars

\* balances 1 and 2: clean_propre and clean_sale leave 0 and 0
C8_Witness ==
    /\ doc0.propre = 1 /\ doc0.sale = 2
    /\ Len(serial) = 2
    /\ {serial[1].call.cmd, serial[2].call.cmd} = {"clean_propre", "clean_sale"}
    /\ DATA.propre = 0 /\ DATA.sale = 0

\* C9: clean_marchandise_all sets every quantity to 0, keeps the set of item
\* names, and leaves both balances and the status-message ids unchanged.
C9_CleanAll ==
    [][\A t \in Tasks :
        (CriticalStep(t) /\ tasks[t].call.cmd = "clean_marchandise_all") =>
            /\ Items(DATA') = Items(DATA)
            /\ \A k \in Items(DATA') : DATA'.marchandises[k] = 0
            /\ DATA'.propre = DATA.propre
            /\ DATA'.sale = DATA.sale
            /\ DATA'.status_message_ids = DATA.status_message_ids]_vars

\* {crates: 2, boxes: 1} became {crates: 0, boxes: 0}
C9_Witness ==
    /\ doc0.marchandises = [k \in Names |-> IF k = "crates" THEN 2 ELSE 1]
    /\ Len(serial) = 1
    /\ serial[1].call.cmd = "clean_marchandise_all"
    /\ DATA.marchandises = [k \in Names |-> 0]
    /\ DATA.status_message_ids = [banque |-> 1, marchandises |-> 2]

\* the command table applied to a document, one command at a time
RefApply(d, c) ==
    LET m == d.marchandises
        has == c.nom \in DOMAIN m
        floor0(x) == IF x < 0 THEN 0 ELSE x
    IN CASE c.cmd = "propre_in" -> [d EXCEPT !.propre = @ + c.montant]
         [] c.cmd = "propre_out" -> [d EXCEPT !.propre = floor0(@ - c.montant)]
         [] c.cmd = "sale_in" -> [d EXCEPT !.sale = @ + c.montant]
         [] c.cmd = "sale_out" -> [d EXCEPT !.sale = floor0(@ - c.montant)]
         [] c.cmd = "clean_propre" -> [d EXCEPT !.propre = 0]
         [] c.cmd = "clean_sale" -> [d EXCEPT !.sale = 0]
         [] c.cmd = "clean_marchandise_all" ->
                [d EXCEPT !.marchandises = [k \in DOMAIN m |-> 0]]
         [] c.cmd = "new_marchandise" /\ ~has ->
                [d EXCEPT !.marchandises = [k \in DOMAIN m \cup {c.nom} |->
                                               IF k \in DOMAIN m THEN m[k] ELSE 0]]
         [] c.cmd = "delete_marchandise" /\ has ->
                [d EXCEPT !.marchandises = [k \in DOMAIN m \ {c.nom} |-> m[k]]]
         [] c.cmd = "marchandise_in" /\ has ->
                [d EXCEPT !.marchandises[c.nom] = @ + c.montant]
         [] c.cmd = "marchandise_out" /\ has ->
                [d EXCEPT !.marchandises[c.nom] = floor0(@ - c.montant)]
         [] c.cmd = "clean_marchandise" /\ has ->
                [d EXCEPT !.marchandises[c.nom] = 0]
         [] OTHER -> d

RECURSIVE RefFold(_, _)
RefFold(d, calls) ==
    IF calls = <<>> THEN d ELSE RefFold(RefApply(d, Head(calls)), Tail(calls))

\* C10: whatever the interleaving of the handlers, the document equals the
\* commands applied one at a time in the order they acquired DATA_LOCK, and
\* the data file holds that document.
C10_Serializable ==
    /\ DATA = RefFold(doc0, SerialCalls)
    /\ file = json_dump(DATA)
    /\ json_load(file) = DATA

\* task 2 took the lock before task 1 while both were in flight, on the same
\* balance: out(2) then in(2) from 1 gives 2 (the other order gives 1)
C10_Witness ==
    /\ doc0.propre = 1
    /\ Len(serial) = 2
    /\ serial[1].task = 2
    /\ serial[1].call = [cmd |-> "propre_out", nom |-> None, montant |-> 2]
    /\ serial[2].task = 1
    /\ serial[2].call = [cmd |-> "propre_in", nom |-> None, montant |-> 2]
    /\ tasks[2].pc = "ack"
    /\ DATA.propre = 2
    /\ json_load(file).propre = 2

\* the number of times e occurs in the sequence q
Count(q, e) == Cardinality({i \in 1..Len(q) : q[i] = e})

\* the history lines of the calls that changed the document
Commits == {[user |-> serial[i].user, call |-> serial[i].call] : i \in {j \in 1..Len(serial) : serial[j].ok}}

\* C11: once every handler has run to its end, in a guild with a history
\* channel, the history holds exactly one entry (user and operands) for each
\* command that changed the document, and no entry of a command that was
\* rejected or hit a domain error.
C11_HistoryRecorded ==
    (NoneRunning /\ get_channel_by_name(HomeGuild, CHANNEL_HISTORY) # NoChannel) =>
        /\ \A e \in Commits :
            Count(history, e) =
                Cardinality({i \in 1..Len(serial) :
                    serial[i].ok /\ serial[i].user = e.user /\ serial[i].call = e.call})
        /\ \A i \in 1..Len(history) : history[i] \in Commits

\* the step ends the status refresh of handler t, which returns
RefreshEnds(t) ==
    /\ tasks[t].pc \in {"fetch_banque", "fetch_march", "edit_banque", "edit_march"}
    /\ tasks'[t].pc = "done"

\* C12: when the status refresh of an accepted command ends, in a guild that
\* has both status channels, each reference of the document is set and its
\* message exists: a reference that was unset, or whose message was deleted
\* before the command, has been replaced by a newly created message.
C12_FetchOrRecreate ==
    [][\A t \in Tasks :
        RefreshEnds(t) =>
            /\ DATA'.status_message_ids.banque \in DOMAIN messages'
            /\ DATA'.status_message_ids.marchandises \in DOMAIN messages']_vars

\* what the two status messages show
Shown(id) == messages[id].content

\* C13: whenever no command is in flight and both referenced status messages
\* exist (no edit having failed), the banque message shows the current two
\* balances and the marchandises message shows exactly the current
\* item/quantity map, or the empty indicator.
C13_StatusConsistent ==
    LET bid == DATA.status_message_ids.banque
        mid == DATA.status_message_ids.marchandises
    IN (NoneRunning /\ bid \in DOMAIN messages /\ mid \in DOMAIN messages) =>
        /\ Shown(bid).kind = "banque"
        /\ Shown(bid).propre = DATA.propre
        /\ Shown(bid).sale = DATA.sale
        /\ Shown(mid).kind = "marchandises"
        /\ Shown(mid).fields = DATA.marchandises
        /\ (Shown(mid).description # None) = (DOMAIN DATA.marchandises = {})

\* the step is an edit by update_status_messages, called from on_ready, of a
\* status message that an earlier refresh rendered
Rerender(id) ==
    /\ \/ ready.pc = "edit_banque" /\ id = ready.banque_msg
       \/ ready.pc = "edit_march" /\ id = ready.march_msg
    /\ ready'.pc # ready.pc
    /\ id \in DOMAIN messages
    /\ messages[id].content.kind \in {"banque", "marchandises"}

\* the rendered fields of an embed other than its timestamp
Fields(e) ==
    IF e.kind = "banque"
    THEN <<e.kind, e.propre, e.sale>>
    ELSE <<e.kind, e.fields, e.description>>

\* C14 as stated: a refresh of a message that an earlier refresh rendered,
\* with no mutation in between, leaves every rendered field of the message
\* identical, the embed timestamp included.
C14_RefreshIdentical ==
    [][\A id \in DOMAIN messages :
        Rerender(id) => messages'[id].content = messages[id].content]_vars

\* C14 amended: such a refresh leaves every rendered field other than the
\* timestamp identical, and the timestamp is the time the embed was built.
C14_RefreshIdenticalButTimestamp ==
    [][\A id \in DOMAIN messages :
        Rerender(id) =>
            /\ Fields(messages'[id].content) = Fields(messages[id].content)
            /\ messages'[id].content.timestamp = ready.embed.timestamp
            /\ messages'[id].content.timestamp >= messages[id].content.timestamp]_vars

\* on_ready ran twice, the second refresh at a later time than the first
C14_Witness ==
    /\ ready.runs = 2
    /\ ready.pc = "done"
    /\ DATA.status_message_ids.banque \in DOMAIN messages
    /\ DATA.status_message_ids.marchandises \in DOMAIN messages
    /\ messages[DATA.status_message_ids.banque].content.kind = "banque"
    /\ messages[DATA.status_message_ids.banque].content.timestamp = 1
    /\ messages[DATA.status_message_ids.marchandises].content.kind = "marchandises"
    /\ messages[DATA.status_message_ids.marchandises].content.timestamp = 1

\* C15: load_data after save_data(doc) returns a document equal to doc in all
\* four fields and leaves the file as it is; load_data with no data file
\* writes the default document (balances 0, no item, both status ids null)
\* and returns a document equal to it.
C15_RoundTrip ==
    [][Load =>
        IF file = NoFile
        THEN /\ DATA'.propre = 0
             /\ DATA'.sale = 0
             /\ DATA'.marchandises = EmptyMap
             /\ DATA'.status_message_ids = [banque |-> NoId, marchandises |-> NoId]
             /\ file' \notin {NoFile, Truncated}
             /\ json_load(file') = DATA'
        ELSE /\ file = json_dump(DATA)
             /\ DATA'.propre = DATA.propre
             /\ DATA'.sale = DATA.sale
             /\ DATA'.marchandises = DATA.marchandises
             /\ DATA'.status_message_ids = DATA.status_message_ids
             /\ file' = file]_vars

\* a document with a negative balance, two items and one status id unset was
\* saved and then loaded
C15_Witness ==
    /\ doc0 = DATA
    /\ DATA = [propre |-> -1, sale |-> 2,
               marchandises |-> [k \in Names |-> IF k = "crates" THEN 0 ELSE 1],
               status_message_ids |-> [banque |-> 1, marchandises |-> NoId]]
    /\ json_load(file) = DATA

\* C16: every step that writes a field of DATA (status_message_ids included)
\* or writes the data file is the step of a task that holds DATA_LOCK; this
\* covers ensure_status_messages run from on_ready beside command handlers.
C16_MutatedUnderLock ==
    [][(DATA' # DATA \/ file' # file) =>
        \E t \in Tasks : DATA_LOCK.holder = t /\ CriticalStep(t)]_vars

\* the positions of a handler in its status refresh
RefreshPcs == {"fetch_banque", "fetch_march", "edit_banque", "edit_march"}

\* C17: an accepted command goes through its steps in this order. (1) It
\* comes to its acknowledgement only from the body of the lock, with DATA
\* assigned, the file holding DATA and the lock left. (2) The success
\* acknowledgement goes out only then, the task not holding the lock. (3) A
\* history entry is posted only by a task that has acknowledged, and is that
\* task's entry. (4) The status refresh begins only after the history step,
\* and a status message changes only in a refresh.
C17_StepOrder ==
    [][/\ \A t \in Tasks :
            /\ (tasks[t].pc # "ack" /\ tasks'[t].pc = "ack") =>
                    /\ tasks[t].pc = "locked"
                    /\ DATA_LOCK.holder = t
                    /\ DATA' = mutate(DATA, tasks[t].call)
                    /\ file' = json_dump(DATA')
                    /\ DATA_LOCK'.holder # t
            /\ (tasks[t].resp # "ok" /\ tasks'[t].resp = "ok") =>
                    /\ tasks[t].pc = "ack"
                    /\ tasks'[t].pc = "history"
                    /\ DATA_LOCK.holder # t
                    /\ history' = history
            /\ (tasks[t].pc \notin RefreshPcs /\ tasks'[t].pc \in RefreshPcs) =>
                    /\ tasks[t].pc = "history"
                    /\ tasks[t].resp = "ok"
       /\ history' # history =>
            \E t \in Tasks :
                /\ tasks[t].pc = "history"
                /\ tasks[t].resp = "ok"
                /\ history' = Append(history, [user |-> tasks[t].user, call |-> tasks[t].call])
                /\ messages' = messages
       /\ messages' # messages =>
            \E t \in Tasks :
                /\ tasks[t].pc \in {"edit_banque", "edit_march"}
                /\ tasks'[t].pc # tasks[t].pc]_vars

\* a command has saved its change, acknowledged, posted its history entry and
\* edited the banque message
C17_Witness ==
    \E t \in Tasks :
        /\ tasks[t].pc = "edit_march"
        /\ tasks[t].resp = "ok"
        /\ Len(history) = 1
        /\ history[1].call = tasks[t].call
        /\ DATA # doc0
        /\ file = json_dump(DATA)
        /\ messages[1].content.propre = DATA.propre
        /\ DATA_LOCK.holder = 0

\* C19: when the write of data.json fails in an accepted command, DATA keeps
\* the new value and the file does not hold it, the caller gets no success
\* acknowledgement (then or later), no history entry is posted, and both
\* DATA_LOCK and SAVE_LOCK are left, the lock passing to the next waiter.
C19_WriteFailure ==
    [][\A t \in Tasks :
        /\ (CriticalStep(t) /\ tasks'[t].pc = "raised") =>
                /\ DATA' = mutate(DATA, tasks[t].call)
                /\ file' \in {file, Truncated}
                /\ DATA' # DATA => file' # json_dump(DATA')
                /\ tasks'[t].resp # "ok"
                /\ history' = history
                /\ SAVE_LOCK' = 0
                /\ DATA_LOCK'.holder # t
                /\ DATA_LOCK.waiters # <<>> =>
                        /\ DATA_LOCK'.holder = Head(DATA_LOCK.waiters)
                        /\ tasks'[Head(DATA_LOCK.waiters)].pc = "locked"
        /\ tasks[t].pc = "raised" =>
                /\ tasks'[t].resp # "ok"
                /\ tasks'[t].pc \in {"raised", "start"}]_vars

\* the write of propre_in(2) failed: DATA holds 3, the file still 1, nothing
\* was acknowledged or logged, and the next command has the lock
C19_Witness ==
    \E t, u \in Tasks :
        /\ tasks[t].pc = "raised"
        /\ tasks[t].resp = None
        /\ Len(serial) = 1
        /\ serial[1].task = t
        /\ DATA.propre = 3
        /\ file = json_dump(doc0)
        /\ doc0.propre = 1
        /\ history = <<>>
        /\ SAVE_LOCK = 0
        /\ DATA_LOCK.holder = u
        /\ tasks[u].pc = "locked"

\* the step is a failure of a send, fetch or edit of a status message or of
\* the post to the history channel
InfraFailure ==
    \/ \E t \in Tasks : HistoryFails(t) \/ FetchFails(t) \/ EditFails(t)
    \/ ReadySendFails
    \/ ReadyFetchFails
    \/ ReadyEditFails

\* C18: a failure to fetch, send or edit a status message, or to post to the
\* history channel, leaves the document and the file as they are and never
\* raises out of the handler or out of on_ready, which run on; after a failed
\* history post the handler goes on to its status refresh.
C18_FailuresSwallowed ==
    [][InfraFailure =>
        /\ DATA' = DATA
        /\ file' = file
        /\ \A t \in Tasks : tasks'[t].pc # "raised"
        /\ ready'.pc # "raised"
        /\ \A t \in Tasks : HistoryFails(t) => tasks'[t].pc \in RefreshPcs]_vars

\* the step is ensure_status_messages sending a new status message
Creates == nextId' # nextId

\* C20: ensure_status_messages sends a new message for a surface only if the
\* surface's reference is unset or its message cannot be fetched, and then
\* records the new id in DATA and saves at once; when it returns, the
\* references are the ids of the two messages it returns; and an on_ready run
\* after the first, over all guilds, no message having been deleted, sends
\* no new status message.
C20_IdempotentUpsert ==
    [][/\ Creates =>
            LET surface == IF ready.pc = "send_banque" THEN "banque" ELSE "marchandises"
                chan == Channel(ready.guild, IF ready.pc = "send_banque" THEN CHANNEL_BANQUE
                                                                        ELSE CHANNEL_MARCH)
            IN /\ ready.pc \in {"send_banque", "send_march"}
               /\ fetch_message(chan, DATA.status_message_ids[surface]) = NoId
               /\ DATA'.status_message_ids[surface] = nextId
               /\ nextId \in DOMAIN messages'
               /\ file' = json_dump(DATA')
       /\ (ready.pc \in {"fetch_march", "send_march"} /\ ready'.pc = "edit_banque") =>
            /\ DATA'.status_message_ids.banque = ready'.banque_msg
            /\ DATA'.status_message_ids.marchandises = ready'.march_msg
       /\ (ready'.pc = "done" /\ ready'.runs >= 2) => nextId' = ready'.first_id]_vars

\* handler t is between its invocation and its end
Running(t) == tasks[t].pc \notin Ended

\* the holder of DATA_LOCK is inside `async with DATA_LOCK`, the tasks queued
\* on it are distinct, none is the holder and each is suspended at the
\* `async with`, and no task is left inside save_data's SAVE_LOCK
LocksInOrder ==
    /\ \A t \in Tasks : DATA_LOCK.holder = t <=> tasks[t].pc \in {"locked", "reply"}
    /\ \A t \in Tasks :
        tasks[t].pc = "waiting" <=> \E i \in 1..Len(DATA_LOCK.waiters) : DATA_LOCK.waiters[i] = t
    /\ \A i, j \in 1..Len(DATA_LOCK.waiters) :
        DATA_LOCK.waiters[i] = DATA_LOCK.waiters[j] => i = j
    /\ DATA_LOCK.waiters # <<>> => DATA_LOCK.holder # 0
    /\ SAVE_LOCK = 0

\* C21: the locking never deadlocks.  DATA_LOCK is held only inside its
\* `async with` and is released on every way out of it (accepted, early
\* return, exception), SAVE_LOCK is only taken and left inside save_data and
\* so after DATA_LOCK, and under fair scheduling every invoked handler and
\* every run of on_ready with its ensure_status_messages call ends.
C21_NoDeadlock ==
    /\ []LocksInOrder
    /\ \A t \in Tasks : Running(t) ~> ~Running(t)
    /\ (ready.pc \notin Ended) ~> (ready.pc \in Ended)

\* two handlers were in the lock one after the other, the first left it by an
\* exception, the second by its early return; both have ended, on_ready has
\* ended, and the lock is free
C21_Witness ==
    /\ Len(serial) = 2
    /\ serial[1].task = 1 /\ serial[2].task = 2
    /\ serial[1].ok /\ ~serial[2].ok
    /\ tasks[1].pc = "raised" /\ file = Truncated
    /\ tasks[2].pc \in {"done", "raised"}
    /\ ready.runs = 1 /\ ready.pc \in Ended
    /\ DATA_LOCK = [holder |-> 0, waiters |-> <<>>]

\* the history lines of the calls that changed the document, in the order
\* they acquired DATA_LOCK
CommitOrder ==
    LET done == SelectSeq(serial, LAMBDA e : e.ok)
    IN [i \in 1..Len(done) |-> [user |-> done[i].user, call |-> done[i].call]]

\* the entries of h are entries of c, in the order they have in c
RECURSIVE InOrder(_, _)
InOrder(h, c) ==
    IF h = <<>> THEN TRUE
    ELSE IF c = <<>> THEN FALSE
    ELSE IF Head(h) = Head(c) THEN InOrder(Tail(h), Tail(c))
    ELSE InOrder(h, Tail(c))

\* the calls of the history entries, oldest first
HistoryCalls == [i \in 1..Len(history) |-> history[i].call]

\* C22: the entries of the history channel are in the order in which their
\* commands acquired DATA_LOCK, whatever the interleaving of the handlers, and
\* once every committed command has its entry, the commands of the history
\* applied in channel order to the initial document give the document.
C22_HistoryInCommitOrder ==
    /\ InOrder(history, CommitOrder)
    /\ (NoneRunning /\ Len(history) = Len(CommitOrder)) =>
            RefFold(doc0, HistoryCalls) = DATA

\* the commands on the clean balance, on the dirty balance, on one item
CleanCmds == {"propre_in", "propre_out", "clean_propre"}
DirtyCmds == {"sale_in", "sale_out", "clean_sale"}
OneItemCmds == ItemQtyCmds \cup ItemCmds

\* every item but nom is on both maps with the same quantity
OthersKept(d, e, nom) ==
    /\ Items(d) \ {nom} = Items(e) \ {nom}
    /\ \A k \in Items(d) \ {nom} : e.marchandises[k] = d.marchandises[k]

\* C23: a command changes only what it targets.  The body of a handler's
\* `async with DATA_LOCK` leaves status_message_ids as they are; of a
\* clean-balance command it leaves the dirty balance and the map, of a
\* dirty-balance command the clean balance and the map, of a single-item
\* command both balances and every other item, of clean_marchandise_all both
\* balances and the names; and no other step of a handler changes the
\* document.
C23_FrameEffect ==
    [][/\ \A t \in Tasks :
            CriticalStep(t) =>
                LET c == tasks[t].call
                IN /\ DATA'.status_message_ids = DATA.status_message_ids
                   /\ c.cmd \in CleanCmds =>
                        /\ DATA'.sale = DATA.sale
                        /\ DATA'.marchandises = DATA.marchandises
                   /\ c.cmd \in DirtyCmds =>
                        /\ DATA'.propre = DATA.propre
                        /\ DATA'.marchandises = DATA.marchandises
                   /\ c.cmd \in OneItemCmds =>
                        /\ DATA'.propre = DATA.propre
                        /\ DATA'.sale = DATA.sale
                        /\ OthersKept(DATA, DATA', c.nom)
                   /\ c.cmd = "clean_marchandise_all" =>
                        /\ DATA'.propre = DATA.propre
                        /\ DATA'.sale = DATA.sale
                        /\ Items(DATA') = Items(DATA)
       /\ (tasks' # tasks /\ \A t \in Tasks : ~CriticalStep(t)) => DATA' = DATA]_vars

\* on balances 1 and 2 and the stock {crates: 2, boxes: 1}, with both status
\* ids set, marchandise_out of 2 crates left crates at 0 and all the rest as
\* it was
C23_Witness ==
    /\ doc0 = [propre |-> 1, sale |-> 2,
               marchandises |-> [k \in Names |-> IF k = "crates" THEN 2 ELSE 1],
               status_message_ids |-> [banque |-> 1, marchandises |-> 2]]
    /\ Len(serial) = 1
    /\ serial[1].call = [cmd |-> "marchandise_out", nom |-> "crates", montant |-> 2]
    /\ DATA = [doc0 EXCEPT !.marchandises["crates"] = 0]

====
